---- MODULE Spec2Model ----
(***************************************************************************)
(* Build-artifact resolution of the STM32 build analyzer                   *)
(* (src/src/services/BuildFolderResolver.ts).                              *)
(*                                                                         *)
(* A file or directory name is a sequence of characters, a path is a       *)
(* sequence of names (path.join appends a name), and the disk is a tree of *)
(* directories with ordered listings, optionally a symbolic link and       *)
(* optionally case-insensitive name lookup.                                *)
(***************************************************************************)
EXTENDS Integers, Sequences, FiniteSets, TLC

(***************************************************************************)
(* Bounds                                                                  *)
(***************************************************************************)
\* Directories below the workspace root on the modelled disks.
MaxDirs == 3

\* The most calls of resolve() that follow the first one on one resolver
MaxCalls == 2

(***************************************************************************)
(* Names                                                                   *)
(***************************************************************************)
N_build   == <<"b","u","i","l","d">>
N_Build   == <<"B","u","i","l","d">>
N_Release == <<"R","e","l","e","a","s","e">>
N_Debug   == <<"D","e","b","u","g">>
N_out     == <<"o","u","t">>
N_output  == <<"o","u","t","p","u","t">>
N_proj    == <<"p","r","o","j">>
N_ws      == <<"w","s">>

ExtElf == <<".","e","l","f">>
ExtMap == <<".","m","a","p">>

F_app_elf   == <<"a","p","p",".","e","l","f">>
F_app_map   == <<"a","p","p",".","m","a","p">>
F_App_map   == <<"A","p","p",".","m","a","p">>
F_other_map == <<"o","t","h","e","r",".","m","a","p">>
F_fw_elf    == <<"f","w",".","e","l","f">>
F_fw_map    == <<"f","w",".","m","a","p">>

\* workspaceFolders[0].uri.fsPath
Root == <<N_ws>>

(***************************************************************************)
(* String functions of the JavaScript runtime used by the resolver         *)
(***************************************************************************)
UpperToLower ==
  [c \in {"A","B","C","D","E","F","G","H","I","J","K","L","M",
          "N","O","P","Q","R","S","T","U","V","W","X","Y","Z"} |->
     CASE c = "A" -> "a" [] c = "B" -> "b" [] c = "C" -> "c" [] c = "D" -> "d"
       [] c = "E" -> "e" [] c = "F" -> "f" [] c = "G" -> "g" [] c = "H" -> "h"
       [] c = "I" -> "i" [] c = "J" -> "j" [] c = "K" -> "k" [] c = "L" -> "l"
       [] c = "M" -> "m" [] c = "N" -> "n" [] c = "O" -> "o" [] c = "P" -> "p"
       [] c = "Q" -> "q" [] c = "R" -> "r" [] c = "S" -> "s" [] c = "T" -> "t"
       [] c = "U" -> "u" [] c = "V" -> "v" [] c = "W" -> "w" [] c = "X" -> "x"
       [] c = "Y" -> "y" [] c = "Z" -> "z"]

LowerChar(c) == IF c \in DOMAIN UpperToLower THEN UpperToLower[c] ELSE c

\* String.prototype.toLowerCase on one name
LowerName(n) == [i \in DOMAIN n |-> LowerChar(n[i])]

\* String.prototype.toLowerCase on a whole path string
ToLowerCase(p) == [i \in DOMAIN p |-> LowerName(p[i])]

\* String.prototype.endsWith
EndsWith(s, suffix) ==
  /\ Len(s) >= Len(suffix)
  /\ SubSeq(s, Len(s) - Len(suffix) + 1, Len(s)) = suffix

\* path.basename(name, ext) on a bare file name
Basename(name, ext) ==
  IF name = ext THEN <<>>
  ELSE IF EndsWith(name, ext) THEN SubSeq(name, 1, Len(name) - Len(ext))
  ELSE name

\* path.join(dir, name)
Join(dir, name) == Append(dir, name)

Front(p) == SubSeq(p, 1, Len(p) - 1)
Last(p) == p[Len(p)]
Range(s) == {s[i] : i \in DOMAIN s}

\* Mutant of SetAdd: a new element goes in front.
SetAdd_InFront(s, x) == IF x \in Range(s) THEN s ELSE <<x>> \o s

\* Set.prototype.add on a Set kept in insertion order
SetAdd(s, x) == IF x \in Range(s) THEN s ELSE Append(s, x)

(***************************************************************************)
(* The disk: directories by canonical path, each with a readable flag and  *)
(* an ordered listing of entries (files, subdirectories, symbolic links).  *)
(***************************************************************************)
NoPath == <<>>

FileEntry(n) == [name |-> n, kind |-> "file", to |-> NoPath]
DirEntry(n) == [name |-> n, kind |-> "dir", to |-> NoPath]
LinkEntry(n, target) == [name |-> n, kind |-> "link", to |-> target]

\* Op applied to the value of x: x is evaluated once, as a const is.
With(x, Op(_)) == CHOOSE r \in {Op(v) : v \in {x}} : TRUE

\* Name comparison of the file system itself
SameName(d, a, b) == IF d.ci THEN LowerName(a) = LowerName(b) ELSE a = b

NoNode == [kind |-> "none", at |-> NoPath]
FileNode == [kind |-> "file", at |-> NoPath]
DirNode(c) == [kind |-> "dir", at |-> c]

\* What a path resolves to on disk d; symbolic links are followed.
RECURSIVE Lookup(_, _)
Lookup(d, p) ==
  IF Len(p) = 0 THEN NoNode
  ELSE IF Len(p) = 1 THEN (IF p = Root THEN DirNode(Root) ELSE NoNode)
  ELSE With(Lookup(d, Front(p)), LAMBDA par :
       IF par.kind # "dir" THEN NoNode
       ELSE LET es == d.nodes[par.at].entries
                hits == {i \in DOMAIN es : SameName(d, es[i].name, Last(p))}
            IN IF hits = {} THEN NoNode
               ELSE LET e == es[CHOOSE i \in hits : TRUE] IN
                    IF e.kind = "dir" THEN DirNode(Append(par.at, e.name))
                    ELSE IF e.kind = "link" THEN DirNode(e.to)
                    ELSE FileNode)

\* fs.existsSync(p)
ExistsSync(d, p) == Lookup(d, p).kind # "none"

\* fs.readdirSync(p) returns rather than throws
CanReadDir(d, p) ==
  LET n == Lookup(d, p) IN n.kind = "dir" /\ d.nodes[n.at].ok

\* fs.readdirSync(p, { withFileTypes: true }) when it returns
ReadDirSync(d, p) == d.nodes[Lookup(d, p).at].entries

\* fs.readdirSync(p) when it returns: the names only
ReadDirNames(d, p) ==
  LET es == ReadDirSync(d, p) IN [i \in DOMAIN es |-> es[i].name]

\* Dirent.isDirectory(): false for a symbolic link
IsDirectory(e) == e.kind = "dir"

(***************************************************************************)
(* findBuildFolders                                                        *)
(***************************************************************************)
\* const common = ['build', 'Build', 'Release', 'Debug', 'out', 'output']
CommonNames == <<N_build, N_Build, N_Release, N_Debug, N_out, N_output>>

Common(root) == [i \in DOMAIN CommonNames |-> Join(root, CommonNames[i])]

\* const key = isCaseInsensitive ? dir.toLowerCase() : dir
VisitKey(isCI, dir) == IF isCI THEN ToLowerCase(dir) ELSE dir

\* Mutant of IsBuildFolder: one of the two extensions is enough.
IsBuildFolder_Either(hasMap, hasElf) == hasMap \/ hasElf

\* if (hasMap && hasElf)
IsBuildFolder(hasMap, hasElf) == hasMap /\ hasElf

\* Mutant of RecordFound: the folder is recorded inside the debug branch.
RecordFound_WhenDebug(st, dir) ==
  IF st.debug
    THEN [st EXCEPT !.console = Append(@, "Found build folder"),
                    !.found = SetAdd(@, dir)]
    ELSE st

\* if (this.debug) { console.log(...) }  found.add(dir)
RecordFound(st, dir) ==
  [st EXCEPT !.console = IF st.debug THEN Append(@, "Found build folder")
                         ELSE @,
             !.found = SetAdd(@, dir)]

\* Mutant of OnListFailure: the catch block rethrows.
OnListFailure_Rethrow(st) == [st EXCEPT !.thrown = TRUE]

\* catch (err) { if (this.debug) console.warn(...) }: the failure ends at
\* this directory
OnListFailure(st) ==
  [st EXCEPT !.console = IF st.debug THEN Append(@, "Failed to access folder")
                         ELSE @]

\* The walker's state: the visited keys, the found folders in insertion
\* order, every call of walk and every directory readdirSync was called on,
\* in call order, whether an exception is propagating, this.debug and the
\* console lines written.
WalkInit(dbg) ==
  [visited |-> {}, found |-> <<>>, calls |-> <<>>, listed |-> <<>>,
   thrown |-> FALSE, debug |-> dbg, console |-> <<>>]

RECURSIVE Walk(_, _, _, _)
RECURSIVE WalkEntries(_, _, _, _, _, _, _, _)

\* for (const d of entries) { ... } from entry i on
WalkEntries(d, isCI, dir, es, i, st, hasMap, hasElf) ==
  IF st.thrown THEN st
  ELSE IF i > Len(es) THEN
    (IF IsBuildFolder(hasMap, hasElf) THEN RecordFound(st, dir) ELSE st)
  ELSE LET e == es[i]
           full == Join(dir, e.name)
       IN IF IsDirectory(e)
            THEN With(Walk(d, isCI, full, st), LAMBDA st1 :
                   WalkEntries(d, isCI, dir, es, i + 1, st1, hasMap, hasElf))
          ELSE IF EndsWith(e.name, ExtMap)
            THEN WalkEntries(d, isCI, dir, es, i + 1, st, TRUE, hasElf)
          ELSE IF EndsWith(e.name, ExtElf)
            THEN WalkEntries(d, isCI, dir, es, i + 1, st, hasMap, TRUE)
          ELSE WalkEntries(d, isCI, dir, es, i + 1, st, hasMap, hasElf)

\* const walk = (dir) => { ... }
Walk(d, isCI, dir, st) ==
  LET key == VisitKey(isCI, dir)
      st0 == [st EXCEPT !.calls = Append(@, dir)]
  IN
  IF key \in st.visited THEN st0
  ELSE LET st1 == [st0 EXCEPT !.visited = @ \cup {key},
                              !.listed = Append(@, dir)]
       IN With(IF CanReadDir(d, dir)
                 THEN With(ReadDirSync(d, dir), LAMBDA entries :
                        WalkEntries(d, isCI, dir, entries, 1, st1,
                                    FALSE, FALSE))
                 ELSE [st1 EXCEPT !.thrown = TRUE],
               LAMBDA body :
                 IF body.thrown
                   THEN OnListFailure([body EXCEPT !.thrown = FALSE])
                   ELSE body)

\* for (const c of common) { if (fs.existsSync(c)) walk(c) } from i on
RECURSIVE WalkCommon(_, _, _, _, _)
WalkCommon(d, isCI, cs, i, st) ==
  IF st.thrown \/ i > Len(cs) THEN st
  ELSE With(IF ExistsSync(d, cs[i]) THEN Walk(d, isCI, cs[i], st) ELSE st,
            LAMBDA st1 : WalkCommon(d, isCI, cs, i + 1, st1))

\* Mutant of NeedsFallback: the workspace root is walked in every case.
NeedsFallback_Always(st) == TRUE

\* if (found.size === 0) walk(root)
NeedsFallback(st) == Len(st.found) = 0

FindBuildFolders(d, isCI, root, dbg) ==
  With(WalkCommon(d, isCI, Common(root), 1, WalkInit(dbg)), LAMBDA st :
    IF st.thrown THEN st
    ELSE IF NeedsFallback(st) THEN Walk(d, isCI, root, st)
    ELSE st)

(***************************************************************************)
(* The modelled disks                                                      *)
(***************************************************************************)
\* What a directory holds, in listing order.
Files(opt) ==
  CASE opt = "E"  -> <<>>
    [] opt = "X"  -> <<F_app_elf>>
    [] opt = "U"  -> <<F_app_elf, F_App_map>>
    [] opt = "P"  -> <<F_other_map, F_app_elf, F_app_map>>
    [] opt = "PP" -> <<F_fw_elf, F_app_elf, F_app_map, F_fw_map>>
    [] opt = "locked" -> <<>>

TopNames == <<N_build, N_Build, N_proj>>
TopSlots == {Join(Root, TopNames[i]) : i \in DOMAIN TopNames}
SubSlots == {Join(t, N_Debug) : t \in TopSlots}

RootOptions == {"E", "PP"}
TopOptions == {"E", "X", "U", "P", "locked"}
SubOptions == {"P", "locked"}
AllOptions == RootOptions \cup TopOptions \cup SubOptions

OptionsAt(s) ==
  IF s = Root THEN RootOptions
  ELSE IF s \in TopSlots THEN TopOptions
  ELSE SubOptions

SlotSets ==
  {S \in SUBSET (TopSlots \cup SubSlots) :
     /\ Cardinality(S) <= MaxDirs
     /\ \A s \in S : s \in SubSlots => Front(s) \in S}

Layouts ==
  UNION {{f \in [S \cup {Root} -> AllOptions] :
            /\ \A s \in DOMAIN f : f[s] \in OptionsAt(s)
            /\ \A s \in DOMAIN f : s \in SubSlots => f[Front(s)] # "locked"}
         : S \in SlotSets}

\* The listing of directory s: its files, its subdirectories, then the link
\* out to the directory link (NoPath: no link).
ChildNames(f, s) ==
  IF s = Root
    THEN SelectSeq(TopNames, LAMBDA n : Join(Root, n) \in DOMAIN f)
    ELSE IF Join(s, N_Debug) \in DOMAIN f THEN <<N_Debug>> ELSE <<>>

Listing(f, s, link) ==
  LET fs == Files(f[s])
      cs == ChildNames(f, s)
  IN [i \in DOMAIN fs |-> FileEntry(fs[i])]
     \o [i \in DOMAIN cs |-> DirEntry(cs[i])]
     \o (IF s = Root /\ link # NoPath
           THEN <<LinkEntry(N_out, link)>> ELSE <<>>)

MkDisk(f, link, ci) ==
  [ci |-> ci,
   nodes |-> [s \in DOMAIN f |->
                [ok |-> f[s] # "locked", entries |-> Listing(f, s, link)]]]

\* A link needs its target, and a case-insensitive file system cannot hold
\* both build and Build. A disk has the link or the case-insensitive lookup,
\* not both.
DiskShapes ==
  {x \in Layouts \X BOOLEAN \X BOOLEAN :
     /\ ~(x[2] /\ x[3])
     /\ x[2] => Join(Root, N_build) \in DOMAIN x[1]
     /\ x[3] => ~(Join(Root, N_build) \in DOMAIN x[1]
                  /\ Join(Root, N_Build) \in DOMAIN x[1])}

Disks ==
  {MkDisk(x[1], IF x[2] THEN Join(Root, N_build) ELSE NoPath, x[3])
     : x \in DiskShapes}

\* The same layouts with out linked to the workspace root itself: every
\* directory is reachable from itself through the link.
LoopDisks == {MkDisk(f, Root, FALSE) : f \in Layouts}

(***************************************************************************)
(* Settings and the files they name                                        *)
(***************************************************************************)
N_cfg == <<"c","f","g">>
N_opt == <<"o","p","t">>
F_gone_map   == <<"g","o","n","e",".","m","a","p">>
F_locked_elf == <<"l","o","c","k","e","d",".","e","l","f">>
N_gcc  == <<"g","c","c">>
N_gone == <<"g","o","n","e">>

\* '' or undefined: a setting that is not configured
Unset == NoPath

\* The settings mapFilePath and elfFilePath as resolve() may read them:
\* none, one alone, both with one that fails the access probe, both good.
OverrideValues ==
  {<<Unset, Unset>>,
   <<<<N_cfg, F_app_map>>, Unset>>,
   <<Unset, <<N_cfg, F_app_elf>>>>,
   <<<<N_cfg, F_gone_map>>, <<N_cfg, F_app_elf>>>>,
   <<<<N_cfg, F_app_map>>, <<N_cfg, F_locked_elf>>>>,
   <<<<N_cfg, F_app_map>>, <<N_cfg, F_app_elf>>>>}
ToolchainPathValues == {Unset, <<N_opt, N_gcc>>, <<N_opt, N_gone>>}

\* vscode.workspace.workspaceFolders: none, or the one root
WorkspaceFoldersValues == {<<>>, <<Root>>}

\* fs.promises.access(p, R_OK) outside the workspace
AccessResult(p) ==
  IF p \in {<<N_cfg, F_app_map>>, <<N_cfg, F_app_elf>>, <<N_opt, N_gcc>>}
    THEN "ok"
  ELSE IF p = <<N_cfg, F_locked_elf>> THEN "EACCES"
  ELSE "ENOENT"

\* Mutant of ExistsOutcome: without the catch block a failed probe raises.
ExistsOutcome_NoCatch(p) ==
  [value |-> AccessResult(p) = "ok", thrown |-> AccessResult(p) # "ok"]

\* exists(filePath): try { await access; return true } catch { return false }
\* value is what the call returns, thrown whether it raises instead.
ExistsOutcome(p) ==
  [value |-> AccessResult(p) = "ok", thrown |-> FALSE]

Exists(p) == ExistsOutcome(p).value

\* if (this.debug) console.warn(...) in the catch block of exists
ExistsLog(p, dbg) ==
  IF dbg /\ AccessResult(p) # "ok" THEN <<"File not accessible">> ELSE <<>>

\* One of the probes ps raised.
ProbeThrown(ps) == \E i \in DOMAIN ps : ExistsOutcome(ps[i]).thrown

\* a string used as a condition
Truthy(p) == Len(p) > 0

(***************************************************************************)
(* resolve(): the pure parts                                               *)
(***************************************************************************)
\* Mutant of UseCustomPaths: the overrides are used without the probes.
UseCustomPaths_Unprobed(cm, ce) == Truthy(cm) /\ Truthy(ce)

\* Mutant of UseCustomPaths: the elf override is not looked at.
UseCustomPaths_MapOnly(cm, ce) == Truthy(cm) /\ Exists(cm)

\* customMap && customElf && await exists(customMap) && await exists(customElf)
UseCustomPaths(cm, ce) ==
  Truthy(cm) /\ Truthy(ce) /\ Exists(cm) /\ Exists(ce)

\* The access probes that condition makes, in order (&& short-circuits)
CustomPathProbes(cm, ce) ==
  IF Truthy(cm) /\ Truthy(ce)
    THEN (IF Exists(cm) THEN <<cm, ce>> ELSE <<cm>>)
    ELSE <<>>

\* Mutant of CustomPaths: the two overrides are swapped.
CustomPaths_Swapped(cm, ce) == [map |-> ce, elf |-> cm]

\* return { map: customMap, elf: customElf, ... }
CustomPaths(cm, ce) == [map |-> cm, elf |-> ce]

NoPaths == [map |-> NoPath, elf |-> NoPath]
NoResult == [map |-> NoPath, elf |-> NoPath, toolchainPath |-> NoPath]

\* vscode.workspace.asRelativePath(folder)
AsRelativePath(root, folder) ==
  IF Len(folder) >= Len(root) /\ SubSeq(folder, 1, Len(root)) = root
    THEN SubSeq(folder, Len(root) + 1, Len(folder))
    ELSE folder

\* Mutant of FindMap: the comparison ignores letter case.
FindMap_IgnoreCase(maps, basename) ==
  LET hits == {i \in DOMAIN maps :
                 LowerName(maps[i]) = LowerName(basename \o ExtMap)} IN
  IF hits = {} THEN <<>>
  ELSE maps[CHOOSE i \in hits : \A j \in hits : i <= j]

\* Mutant of FindMap: the first map of the folder, whatever its stem.
FindMap_AnyMap(maps, basename) ==
  IF Len(maps) = 0 THEN <<>> ELSE maps[1]

\* maps.find(m => m === basename + '.map'), <<>> for undefined
FindMap(maps, basename) ==
  LET hits == {i \in DOMAIN maps : maps[i] = basename \o ExtMap} IN
  IF hits = {} THEN <<>>
  ELSE maps[CHOOSE i \in hits : \A j \in hits : i <= j]

\* for (const elf of elfs) { ... items.push(...) } from elf i on
RECURSIVE PairElfs(_, _, _, _, _, _)
PairElfs(root, folder, elfs, maps, i, its) ==
  IF i > Len(elfs) THEN its
  ELSE LET elf == elfs[i]
           basename == Basename(elf, ExtElf)
           map == FindMap(maps, basename)
       IN PairElfs(root, folder, elfs, maps, i + 1,
            IF Truthy(map)
              THEN Append(its, [label |-> basename,
                                  detail |-> AsRelativePath(root, folder),
                                  elf |-> Join(folder, elf),
                                  map |-> Join(folder, map)])
              ELSE its)

\* Mutant of FolderItems: a folder's candidates go in front of the list.
FolderItems_InFront(d, root, folder, its) ==
  With(ReadDirNames(d, folder), LAMBDA files :
    With(SelectSeq(files, LAMBDA f : EndsWith(f, ExtElf)), LAMBDA elfs :
      With(SelectSeq(files, LAMBDA f : EndsWith(f, ExtMap)), LAMBDA maps :
        PairElfs(root, folder, elfs, maps, 1, <<>>) \o its)))

\* The body of for (const folder of folders)
FolderItems(d, root, folder, its) ==
  With(ReadDirNames(d, folder), LAMBDA files :
    With(SelectSeq(files, LAMBDA f : EndsWith(f, ExtElf)), LAMBDA elfs :
      With(SelectSeq(files, LAMBDA f : EndsWith(f, ExtMap)), LAMBDA maps :
        PairElfs(root, folder, elfs, maps, 1, its))))

\* for (const folder of folders) { ... } from folder i on
RECURSIVE CollectItems(_, _, _, _, _)
CollectItems(d, root, fs, i, its) ==
  IF i > Len(fs) THEN its
  ELSE CollectItems(d, root, fs, i + 1,
                    FolderItems(d, root, fs[i], its))

\* !workspaceFolders || workspaceFolders.length === 0
NoWorkspace(wf) == Len(wf) = 0

\* Mutant of NoFoldersFound: the check is left out.
NoFoldersFound_Never(fs) == FALSE

\* folders.length === 0
NoFoldersFound(fs) == Len(fs) = 0

\* items.length === 0
NoItems(its) == Len(its) = 0

\* Mutant of SelectedAfterPick: the pick is not stored, items[0] stays.
SelectedAfterPick_First(items, pick) == items[1]

\* selectedItem = pick
SelectedAfterPick(items, pick) == pick

PathsOf(item) == [map |-> item.map, elf |-> item.elf]

\* Mutant of ToolchainOutcome: the notice is shown twice.
ToolchainOutcome_Twice(tc) ==
  IF ~Truthy(tc) THEN [path |-> NoPath, notices |-> <<>>, thrown |-> FALSE]
  ELSE IF Exists(tc)
    THEN [path |-> tc, notices |-> <<"info", "info">>, thrown |-> FALSE]
  ELSE [path |-> NoPath, notices |-> <<"warning", "warning">>,
        thrown |-> FALSE]

\* Mutant of ToolchainOutcome: a path that fails the probe is returned all
\* the same.
ToolchainOutcome_KeepsPath(tc) ==
  IF ~Truthy(tc)
    THEN [path |-> NoPath, notices |-> <<>>, thrown |-> FALSE]
  ELSE IF Exists(tc)
    THEN [path |-> tc, notices |-> <<"info">>, thrown |-> FALSE]
  ELSE [path |-> tc, notices |-> <<"warning">>, thrown |-> FALSE]

\* Mutant of ToolchainOutcome: a path that fails the probe raises.
ToolchainOutcome_Throws(tc) ==
  IF ~Truthy(tc)
    THEN [path |-> NoPath, notices |-> <<>>, thrown |-> FALSE]
  ELSE IF Exists(tc)
    THEN [path |-> tc, notices |-> <<"info">>, thrown |-> FALSE]
  ELSE [path |-> NoPath, notices |-> <<>>, thrown |-> TRUE]

\* getToolchainPath(): the value returned, the notice shown, and whether the
\* call raises
ToolchainOutcome(tc) ==
  IF ~Truthy(tc)
    THEN [path |-> NoPath, notices |-> <<>>, thrown |-> FALSE]
  ELSE IF ExistsOutcome(tc).thrown
    THEN [path |-> NoPath, notices |-> <<>>, thrown |-> TRUE]
  ELSE IF Exists(tc)
    THEN [path |-> tc, notices |-> <<"info">>, thrown |-> FALSE]
  ELSE [path |-> NoPath, notices |-> <<"warning">>, thrown |-> FALSE]

\* The console lines of resolve() up to the fast-path return (lines 25-32)
BeginLog(cm, ce, dbg) ==
  IF ~dbg THEN <<>>
  ELSE <<"Resolving build paths", "Custom map", "Custom elf">>
       \o (IF Truthy(cm) /\ Truthy(ce) THEN ExistsLog(cm, dbg) ELSE <<>>)
       \o (IF Truthy(cm) /\ Truthy(ce) /\ Exists(cm)
             THEN ExistsLog(ce, dbg) ELSE <<>>)
       \o (IF UseCustomPaths(cm, ce)
             THEN <<"Using custom paths from settings">> ELSE <<>>)

\* if (this.debug) console.log(`Scanning workspace folder: ${root}`)
ScanningLog(dbg) == IF dbg THEN <<"Scanning workspace folder">> ELSE <<>>

\* if (this.debug) { console.log(Selected ELF); console.log(Selected MAP) }
SelectedLog(dbg) == IF dbg THEN <<"Selected ELF", "Selected MAP">> ELSE <<>>

\* The console lines of getToolchainPath()
ToolchainLog(tc, dbg) ==
  IF ~Truthy(tc) THEN <<>>
  ELSE ExistsLog(tc, dbg)
       \o (IF ~dbg THEN <<>>
           ELSE IF Exists(tc) THEN <<"Using toolchain">>
           ELSE <<"Toolchain path not found">>)

ErrNoWorkspace == "No workspace folder open"
ErrNoBuildFolder == "No build folders containing both .map and .elf found"
ErrNoMatch == "No matching .elf and .map files found"
ErrCancelled == "Selection cancelled"
ErrFs == "readdir failed"
ErrAccess == "access failed"

(***************************************************************************)
(* The webview script (src/webview/build-analyzer.ts): texts               *)
(***************************************************************************)
\* A text is a sequence of characters. The characters of the symbol names
\* and of the search box are a, b, A, B, the colon, the opening parenthesis
\* and the blank.
WordChars == {"a", "b", "A", "B"}

\* /[a-zA-Z0-9_]/.test(c)
IsWordChar(c) == c \in WordChars

\* String.prototype.trim
Trim(t) ==
  LET inked == {i \in DOMAIN t : t[i] # " "}
  IN IF inked = {} THEN <<>>
     ELSE SubSeq(t, CHOOSE i \in inked : \A j \in inked : i <= j,
                    CHOOSE i \in inked : \A j \in inked : j <= i)

\* The offsets, counted from 0, at which q occurs in t
Occurrences(t, q) ==
  {k \in 0..(Len(t) - Len(q)) : SubSeq(t, k + 1, k + Len(q)) = q}

\* String.prototype.indexOf: the first occurrence, or -1
TextIndexOf(t, q) ==
  IF Occurrences(t, q) = {} THEN -1
  ELSE CHOOSE k \in Occurrences(t, q) : \A j \in Occurrences(t, q) : k <= j

\* String.prototype.includes
Includes(t, q) == Occurrences(t, q) # {}

\* The character of t at offset k counted from 0 is a word character;
\* FALSE outside t
WordAt(t, k) == k >= 0 /\ k < Len(t) /\ IsWordChar(t[k + 1])

\* The regular-expression assertion \b at offset k of t
WordBoundary(t, k) == WordAt(t, k - 1) # WordAt(t, k)

\* new RegExp(pattern, flags) throws a SyntaxError: an opening parenthesis
\* is never closed (no text here holds a closing one)
RegExpThrows(query) == \E i \in DOMAIN query : query[i] = "("

\* regex.test(text) for the pattern query, or \b query \b when wholeWord,
\* with the flag i unless caseSensitive. Every character of a pattern that
\* compiles stands for itself.
RegExpTest(query, caseSensitive, wholeWord, text) ==
  LET hay == IF caseSensitive THEN text ELSE LowerName(text)
      needle == IF caseSensitive THEN query ELSE LowerName(query)
  IN \E k \in Occurrences(hay, needle) :
        wholeWord => WordBoundary(text, k) /\ WordBoundary(text, k + Len(query))

\* The whole-word matcher outside regex mode (lines 330-339): it looks at
\* the first occurrence of the query only
WholeWordMatcher(searchIn, searchQuery) ==
  \E idx \in {TextIndexOf(searchIn, searchQuery)} :
     /\ idx # -1
     /\ idx = 0 \/ ~WordAt(searchIn, idx - 1)
     /\ idx + Len(searchQuery) >= Len(searchIn)
          \/ ~WordAt(searchIn, idx + Len(searchQuery))

\* matcher(text) as performSearch builds it from the three option buttons;
\* query is not empty and the pattern compiles
Matcher(query, opts, text) ==
  IF opts.useRegex
  THEN RegExpTest(query, opts.caseSensitive, opts.wholeWord, text)
  ELSE LET searchQuery == IF opts.caseSensitive THEN query
                          ELSE LowerName(query)
           searchIn == IF opts.caseSensitive THEN text ELSE LowerName(text)
       IN IF opts.wholeWord THEN WholeWordMatcher(searchIn, searchQuery)
          ELSE Includes(searchIn, searchQuery)

\* The collation of the characters: blank, punctuation, letters
CharRank(c) ==
  IF c = " " THEN 0 ELSE IF c = ":" THEN 1 ELSE IF c = "(" THEN 2
  ELSE IF c = "a" THEN 3 ELSE IF c = "A" THEN 4
  ELSE IF c = "b" THEN 5 ELSE 6

\* String.prototype.localeCompare: negative, zero or positive
RECURSIVE LocaleCompare(_, _)
LocaleCompare(a, b) ==
  IF a = <<>> /\ b = <<>> THEN 0
  ELSE IF a = <<>> THEN -1
  ELSE IF b = <<>> THEN 1
  ELSE IF CharRank(Head(a)) # CharRank(Head(b))
       THEN CharRank(Head(a)) - CharRank(Head(b))
  ELSE LocaleCompare(Tail(a), Tail(b))

\* n.toString(16).padStart(8, '0'): eight hexadecimal digits, each digit
\* written as its value
HexWidth == 8

Hex8(n) == [i \in 1..HexWidth |-> (n \div (16 ^ (HexWidth - i))) % 16]

\* parseInt(text, 16) || 0 on the text "0x" followed by the digits
RECURSIVE ParseHex(_)
ParseHex(digits) ==
  IF digits = <<>> THEN 0
  ELSE 16 * ParseHex(Front(digits)) + Last(digits)

\* The decimal digits of n, as `${n}` writes them
RECURSIVE Decimal(_)
Decimal(n) == IF n < 10 THEN <<n>> ELSE Append(Decimal(n \div 10), n % 10)

RECURSIVE ParseDecimal(_)
ParseDecimal(digits) ==
  IF digits = <<>> THEN 0
  ELSE 10 * ParseDecimal(Front(digits)) + Last(digits)

\* The multipliers of parseSizeToBytes
Multiplier(unit) ==
  IF unit = "KB" THEN 1024
  ELSE IF unit = "MB" THEN 1024 * 1024
  ELSE 1

\* parseSizeToBytes on a cell text made of digits, a blank and a unit
ParseSizeToBytes(sizeText) ==
  ParseDecimal(sizeText.digits) * Multiplier(sizeText.unit)

(***************************************************************************)
(* The webview script: the rows of the table body                          *)
(***************************************************************************)
Plus == "+"
Minus == "-"
NoToggle == ""      \* a symbol row has no toggle span
Shown == ""         \* style.display
Hidden == "none"
NoParent == 0       \* a region row has no data-parent attribute

\* The row of region number r of the message
RegionRow(region, r, id) ==
  [level |-> 1, id |-> id, parent |-> NoParent, el |-> <<r, 0, 0>>,
   nameCell |-> <<" ">> \o region.name \o <<" ">>,
   addrCell |-> <<>>, sizeCell |-> [digits |-> <<>>, unit |-> "B"],
   orig |-> 0, display |-> Shown, toggle |-> Plus, highlight |-> FALSE]

\* The row of section number s of region number r
SectionRow(section, r, s, id, regionId) ==
  [level |-> 2, id |-> id, parent |-> regionId, el |-> <<r, s, 0>>,
   nameCell |-> <<" ">> \o section.name \o <<" ">>,
   addrCell |-> <<>>, sizeCell |-> [digits |-> <<>>, unit |-> "B"],
   orig |-> 0, display |-> Hidden, toggle |-> Plus, highlight |-> FALSE]

\* The row of symbol number k of that section
SymbolRow(symbol, r, s, k, id, sectionId) ==
  [level |-> 3, id |-> id, parent |-> sectionId, el |-> <<r, s, k>>,
   nameCell |-> <<" ">> \o symbol.name \o <<" ">>,
   addrCell |-> Hex8(symbol.startAddress),
   sizeCell |-> [digits |-> Decimal(symbol.size), unit |-> "B"],
   orig |-> k, display |-> Hidden, toggle |-> NoToggle, highlight |-> FALSE]

\* region.sections.forEach of fillTableRegions, from section number s on;
\* id is the counter before the section
RECURSIVE FillSections(_, _, _, _, _)
FillSections(sections, r, s, id, regionId) ==
  IF s > Len(sections) THEN <<>>
  ELSE LET symbols == sections[s].symbols
       IN <<SectionRow(sections[s], r, s, id + 1, regionId)>>
          \o [k \in 1..Len(symbols) |->
                SymbolRow(symbols[k], r, s, k, id + 1 + k, id + 1)]
          \o FillSections(sections, r, s + 1, id + 1 + Len(symbols), regionId)

\* regions.forEach of fillTableRegions, from region number r on
RECURSIVE FillRegions(_, _, _)
FillRegions(regions, r, id) ==
  IF r > Len(regions) THEN <<>>
  ELSE LET below == FillSections(regions[r].sections, r, 1, id + 1, id + 1)
       IN <<RegionRow(regions[r], r, id + 1)>> \o below
          \o FillRegions(regions, r + 1, id + 1 + Len(below))

\* fillTableRegions(regions): the rows of the table body
FillTableRegions(regions) == FillRegions(regions, 1, 0)

\* The symbol name performSearch and applySorting read from a row
SymbolName(row) == Trim(row.nameCell)

\* The comparator of applySorting
Compare(a, b, field, asc) ==
  IF field = "original" THEN a.orig - b.orig
  ELSE IF field = "name"
  THEN IF asc
       THEN LocaleCompare(LowerName(SymbolName(a)), LowerName(SymbolName(b)))
       ELSE LocaleCompare(LowerName(SymbolName(b)), LowerName(SymbolName(a)))
  ELSE IF field = "address"
  THEN IF asc THEN ParseHex(a.addrCell) - ParseHex(b.addrCell)
       ELSE ParseHex(b.addrCell) - ParseHex(a.addrCell)
  ELSE IF field = "size"
  THEN IF asc THEN ParseSizeToBytes(a.sizeCell) - ParseSizeToBytes(b.sizeCell)
       ELSE ParseSizeToBytes(b.sizeCell) - ParseSizeToBytes(a.sizeCell)
  ELSE 0

\* Array.prototype.sort is stable: x goes behind the last element that the
\* comparator does not put after x
InsertSorted(sorted, x, field, asc) ==
  LET notAfter == {i \in DOMAIN sorted : Compare(sorted[i], x, field, asc) <= 0}
      p == IF notAfter = {} THEN 0
           ELSE CHOOSE i \in notAfter : \A j \in notAfter : j <= i
  IN SubSeq(sorted, 1, p) \o <<x>> \o SubSeq(sorted, p + 1, Len(sorted))

\* section.symbols.sort(...)
RECURSIVE SortSymbols(_, _, _)
SortSymbols(symbols, field, asc) ==
  IF symbols = <<>> THEN <<>>
  ELSE InsertSorted(SortSymbols(Front(symbols), field, asc), Last(symbols),
                    field, asc)

\* One step of the grouping loop of applySorting: currentRegion is the last
\* group, currentSection its last section
GroupRow(regions, row) ==
  IF row.level = 1
  THEN Append(regions, [row |-> row, sections |-> <<>>])
  ELSE IF row.level = 2 /\ regions # <<>>
  THEN [regions EXCEPT ![Len(regions)].sections =
          Append(@, [row |-> row, symbols |-> <<>>])]
  ELSE IF row.level = 3 /\ regions # <<>> /\ Last(regions).sections # <<>>
  THEN [regions EXCEPT ![Len(regions)].sections =
          [@ EXCEPT ![Len(@)].symbols = Append(@, row)]]
  ELSE regions

RECURSIVE GroupRows(_)
GroupRows(rs) ==
  IF rs = <<>> THEN <<>> ELSE GroupRow(GroupRows(Front(rs)), Last(rs))

\* section.symbols.forEach of the rebuild loop (lines 512-517)
RenumberSymbols_KeepIds(symbols, sectionId) == symbols

RenumberSymbols(symbols, sectionId) ==
  [k \in 1..Len(symbols) |->
     [symbols[k] EXCEPT !.id = sectionId + k, !.parent = sectionId]]

\* The rebuild loop of applySorting over the sections of one region
RECURSIVE RebuildSections(_, _, _, _, _, _)
RebuildSections(sections, s, newId, regionId, field, asc) ==
  IF s > Len(sections) THEN <<>>
  ELSE LET symbols == SortSymbols(sections[s].symbols, field, asc)
       IN <<[sections[s].row EXCEPT !.id = newId + 1, !.parent = regionId]>>
          \o RenumberSymbols(symbols, newId + 1)
          \o RebuildSections(sections, s + 1, newId + 1 + Len(symbols),
                             regionId, field, asc)

RECURSIVE RebuildRegions(_, _, _, _, _)
RebuildRegions(regions, r, newId, field, asc) ==
  IF r > Len(regions) THEN <<>>
  ELSE LET below == RebuildSections(regions[r].sections, 1, newId + 1,
                                    newId + 1, field, asc)
       IN <<[regions[r].row EXCEPT !.id = newId + 1]>> \o below
          \o RebuildRegions(regions, r + 1, newId + 1 + Len(below), field, asc)

\* applySorting(field, isAscending): the rows of the table body afterwards
ApplySorting(rs, field, asc) == RebuildRegions(GroupRows(rs), 1, 0, field, asc)

\* document.querySelector(`tr[data-id="${id}"]`): the first such row, 0 for
\* none
RowWithId(rs, id) ==
  IF \E i \in DOMAIN rs : rs[i].id = id
  THEN CHOOSE i \in DOMAIN rs :
         rs[i].id = id /\ \A j \in DOMAIN rs : rs[j].id = id => i <= j
  ELSE 0

NoCount == <<"">>
InvalidRegex == <<"Invalid regex">>
NoMatches == <<"No matches">>
Found(n) == <<"Found: ", n, " symbols">>

\* The reset of performSearch for an empty query (lines 294-317)
ResetRows(rs) ==
  [i \in DOMAIN rs |->
     IF rs[i].level = 1
     THEN [rs[i] EXCEPT !.display = Shown, !.toggle = Plus]
     ELSE [rs[i] EXCEPT !.display = Hidden,
                        !.toggle = IF @ = NoToggle THEN NoToggle ELSE Plus]]

\* Lines 287-290 of performSearch
RemoveHighlights(rs) == [i \in DOMAIN rs |-> [rs[i] EXCEPT !.highlight = FALSE]]

\* The two passes of performSearch over the rows (lines 354-420)
SearchRows(rs, query, opts) ==
  LET hits == {i \in DOMAIN rs :
                 rs[i].level = 3 /\ Matcher(query, opts, SymbolName(rs[i]))}
      sectionIds == {rs[i].parent : i \in hits} \ {NoParent}
      regionIds == {rs[RowWithId(rs, rs[i].parent)].parent :
                      i \in {h \in hits : RowWithId(rs, rs[h].parent) # 0}}
                   \ {NoParent}
      parentsToShow == sectionIds \cup regionIds
  IN [rows |->
        [i \in DOMAIN rs |->
           IF rs[i].level = 3
           THEN IF i \in hits
                THEN [rs[i] EXCEPT !.display = Shown, !.highlight = TRUE]
                ELSE [rs[i] EXCEPT !.display = Hidden]
           ELSE IF rs[i].id \in parentsToShow
                THEN [rs[i] EXCEPT !.display = Shown, !.toggle = Minus]
                ELSE [rs[i] EXCEPT !.display = Hidden, !.toggle = Plus]],
      count |-> IF hits = {} THEN NoMatches ELSE Found(Cardinality(hits))]

\* performSearch(query): the rows and the text of searchMatchCount afterwards
PerformSearch(rs, query, opts) ==
  LET cleared == RemoveHighlights(rs)
  IN IF query = <<>> THEN [rows |-> ResetRows(cleared), count |-> NoCount]
     ELSE IF opts.useRegex /\ RegExpThrows(query)
     THEN [rows |-> cleared, count |-> InvalidRegex]
     ELSE SearchRows(cleared, query, opts)

\* The toggle branch of the click handler of regionsTable on row i
ToggleRows(rs, i) ==
  LET parentId == rs[i].id
      flipped(j) == IF rs[j].display = Hidden THEN Shown ELSE Hidden
      folds(j) == rs[j].parent = parentId /\ flipped(j) = Hidden
                    /\ rs[j].level = 2
  IN [j \in DOMAIN rs |->
        IF rs[j].parent = parentId
        THEN [rs[j] EXCEPT !.display = flipped(j),
                           !.toggle = IF flipped(j) = Hidden /\ @ # NoToggle
                                      THEN Plus ELSE @]
        ELSE IF \E c \in DOMAIN rs : folds(c) /\ rs[j].parent = rs[c].id
        THEN [rs[j] EXCEPT !.display = Hidden]
        ELSE IF j = i
        THEN [rs[j] EXCEPT !.toggle = IF @ = Plus THEN Minus ELSE Plus]
        ELSE rs[j]]

SortFields == {"name", "address", "size"}
NoField == "null"

Idle == [text |-> "updown", active |-> FALSE]

\* updateSortIndicators(currentSortField, isAscending)
UpdateSortIndicators(field, asc) ==
  [f \in SortFields |->
     IF field # NoField /\ f = field
     THEN [text |-> IF asc THEN "up" ELSE "down", active |-> TRUE]
     ELSE Idle]

\* The sort state and the field applySorting is called with after a click
\* on the header of 'field' (lines 595-611)
SortClick_NoReset(current, asc, field) ==
  IF current = field
  THEN [field |-> field, asc |-> ~asc, by |-> field]
  ELSE [field |-> field, asc |-> TRUE, by |-> field]

SortClick(current, asc, field) ==
  IF current = field
  THEN IF asc THEN [field |-> field, asc |-> FALSE, by |-> field]
       ELSE [field |-> NoField, asc |-> TRUE, by |-> "original"]
  ELSE [field |-> field, asc |-> TRUE, by |-> field]

(***************************************************************************)
(* State                                                                   *)
(***************************************************************************)
VARIABLES
  disk,               \* the file system under the workspace root
  isCaseInsensitive,  \* process.platform is win32 or darwin
  pc,                 \* where resolve() is
  customMap,          \* cfg.get('mapFilePath') as read by resolve()
  customElf,          \* cfg.get('elfFilePath') as read by resolve()
  workspaceFolders,   \* vscode.workspace.workspaceFolders
  folders,            \* the array findBuildFolders returned
  items,              \* the candidate list
  paths,              \* the map/elf pair resolve() has settled on
  listed,             \* every readdirSync call so far, in order
  walked,             \* every call of walk by findBuildFolders, in order
  probes,             \* every access probe so far, in order
  prompts,            \* showQuickPick calls so far
  shown,              \* the list the last showQuickPick call was given
  picked,             \* the index the user picked in it, 0 for none
  toolchain,          \* cfg.get('toolchainPath') as read by getToolchainPath()
  notices,            \* information and warning messages shown
  result,             \* the BuildPaths returned
  error,              \* the message of the Error thrown
  debug,              \* this.debug
  console,            \* console.log and console.warn lines so far
  resolveCalls,       \* the resolve() calls that have ended
  previous,           \* the error and the result of the last of them
  rows,               \* the rows of regionsBody, in document order
  searchValue,        \* searchInput.value
  searchTimeout,      \* the timer of the input listener is running
  options,            \* which of the three option buttons are active
  searchMatchCount,   \* the text of searchMatchCount
  currentSortField,   \* currentSortField of the header listeners
  isAscending,        \* isAscending of the header listeners
  sortIndicators,     \* text and active class of the three sort indicators
  last,               \* the handler that ran last and its call of performSearch
  streak              \* the header clicked last and its place in a round of three

\* Everything but the debug flag and the console
observables ==
  <<disk, isCaseInsensitive, pc, customMap, customElf, workspaceFolders,
    folders, items, paths, listed, walked, probes, prompts, shown, picked,
    toolchain, notices, result, error>>

\* The state of the webview script
webview ==
  <<rows, searchValue, searchTimeout, options, searchMatchCount,
    currentSortField, isAscending, sortIndicators, last, streak>>

\* What resolve() does not touch
outside == <<resolveCalls, previous, webview>>

vars == <<observables, debug, console, outside>>

\* The state of the resolver
resolver == <<observables, debug, console, resolveCalls, previous>>

NoPrevious == [error |-> "", result |-> NoResult]

\* The webview once DOMContentLoaded has run: the empty table body of the
\* page, no text in the search box, no option button active, no sort
WebviewLoaded ==
  /\ rows = <<>>
  /\ searchValue = <<>>
  /\ searchTimeout = FALSE
  /\ options = [b \in {"caseSensitive", "wholeWord", "useRegex"} |-> FALSE]
  /\ searchMatchCount = NoCount
  /\ currentSortField = NoField
  /\ isAscending = TRUE
  /\ sortIndicators = [f \in SortFields |-> Idle]
  /\ last = [op |-> "load", search |-> "none", query |-> <<>>]
  /\ streak = [field |-> NoField, n |-> 0]

\* A resolver that has not run yet, on disk d with this.debug = dbg
InitOn(ds, dbg) ==
  /\ disk \in ds
  /\ isCaseInsensitive \in BOOLEAN
  /\ pc = "idle"
  /\ customMap = Unset
  /\ customElf = Unset
  /\ workspaceFolders \in WorkspaceFoldersValues
  /\ folders = <<>>
  /\ items = <<>>
  /\ paths = NoPaths
  /\ listed = <<>>
  /\ walked = <<>>
  /\ probes = <<>>
  /\ prompts = 0
  /\ shown = <<>>
  /\ picked = 0
  /\ toolchain = Unset
  /\ notices = <<>>
  /\ result = NoResult
  /\ error = ""
  /\ debug = dbg
  /\ console = <<>>
  /\ resolveCalls = 0
  /\ previous = NoPrevious
  /\ WebviewLoaded

\* The debug setting is off unless configured: .get('debug') ?? false
Init == InitOn(Disks, FALSE)

\* findBuildFolders(Root) on the disks of LoopDisks, computed once per disk.
FindBuildFoldersOn ==
  [d \in LoopDisks |-> [ci \in BOOLEAN |->
     FindBuildFolders(d, ci, Root, FALSE)]]

\* Mutant of FindBuildFoldersAt: the visited and found sets of the previous
\* call are kept.
FindBuildFoldersAt_Kept(d, isCI, root, dbg) ==
  LET kept == [WalkInit(dbg) EXCEPT
                 !.visited = {VisitKey(isCI, walked[i]) : i \in DOMAIN walked},
                 !.found = folders]
      st == WalkCommon(d, isCI, Common(root), 1, kept)
  IN IF st.thrown THEN st
     ELSE IF NeedsFallback(st) THEN Walk(d, isCI, root, st)
     ELSE st

\* await this.findBuildFolders(root)
FindBuildFoldersAt(d, isCI, root, dbg) ==
  IF root = Root /\ ~dbg /\ d \in LoopDisks THEN FindBuildFoldersOn[d][isCI]
  ELSE FindBuildFolders(d, isCI, root, dbg)

(***************************************************************************)
(* resolve(), step by step. Each step is given as what it does to the      *)
(* observable state, then as the whole step with its console output.       *)
(***************************************************************************)
\* Lines 20-38: read the overrides and try the fast path.
BeginStep(cm, ce) ==
  /\ pc = "idle"
  /\ customMap' = cm
  /\ customElf' = ce
  /\ probes' = probes \o CustomPathProbes(cm, ce)
  /\ IF ProbeThrown(CustomPathProbes(cm, ce))
       THEN /\ paths' = paths
            /\ error' = ErrAccess
            /\ pc' = "failed"
     ELSE IF UseCustomPaths(cm, ce)
       THEN /\ paths' = CustomPaths(cm, ce)
            /\ error' = error
            /\ pc' = "toolchain"
     ELSE /\ paths' = paths
          /\ error' = error
          /\ pc' = "workspace"
  /\ UNCHANGED <<disk, isCaseInsensitive, workspaceFolders, folders, items,
                 listed, walked, prompts, shown, picked, toolchain, notices,
                 result>>

Begin(cm, ce) ==
  /\ BeginStep(cm, ce)
  /\ console' = console \o BeginLog(cm, ce, debug)
  /\ UNCHANGED <<debug, outside>>

\* Lines 40-47: the workspace root, or 'No workspace folder open'.
CheckWorkspaceStep ==
  /\ pc = "workspace"
  /\ IF NoWorkspace(workspaceFolders)
       THEN /\ error' = ErrNoWorkspace
            /\ pc' = "failed"
       ELSE /\ error' = error
            /\ pc' = "scan"
  /\ UNCHANGED <<disk, isCaseInsensitive, customMap, customElf,
                 workspaceFolders, folders, items, paths, listed, walked,
                 probes, prompts, shown, picked, toolchain, notices, result>>

CheckWorkspace ==
  /\ CheckWorkspaceStep
  /\ console' = (IF NoWorkspace(workspaceFolders) THEN console
                 ELSE console \o ScanningLog(debug))
  /\ UNCHANGED <<debug, outside>>

\* Lines 49-52: findBuildFolders(root) has ended in the walker state st;
\* its folders, or 'No build folders ...'.
ScanStep(st) ==
  /\ pc = "scan"
  /\ listed' = listed \o st.listed
  /\ walked' = st.calls
  /\ folders' = (IF st.thrown THEN folders ELSE st.found)
  /\ IF st.thrown
       THEN error' = ErrFs /\ pc' = "failed"
     ELSE IF NoFoldersFound(st.found)
       THEN error' = ErrNoBuildFolder /\ pc' = "failed"
     ELSE error' = error /\ pc' = "collect"
  /\ UNCHANGED <<disk, isCaseInsensitive, customMap, customElf,
                 workspaceFolders, items, paths, probes, prompts, shown,
                 picked, toolchain, notices, result>>

Scan ==
  /\ pc = "scan"
  /\ \E st \in {FindBuildFoldersAt(disk, isCaseInsensitive,
                                    workspaceFolders[1], debug)} :
       /\ ScanStep(st)
       /\ console' = console \o st.console
  /\ UNCHANGED <<debug, outside>>

\* Lines 54-97: pair the artifacts of each folder, then take the only
\* candidate, ask, or fail with 'No matching ...'.
CollectStep ==
  /\ pc = "collect"
  /\ \E its \in {CollectItems(disk, workspaceFolders[1], folders, 1, <<>>)} :
        /\ items' = its
        /\ listed' = listed \o folders
        /\ IF NoItems(its)
             THEN /\ error' = ErrNoMatch
                  /\ pc' = "failed"
                  /\ UNCHANGED <<paths, prompts, shown>>
           ELSE IF Len(its) > 1
             THEN /\ paths' = PathsOf(its[1])
                  /\ prompts' = prompts + 1
                  /\ shown' = its
                  /\ pc' = "prompt"
                  /\ error' = error
           ELSE /\ paths' = PathsOf(its[1])
                /\ pc' = "toolchain"
                /\ UNCHANGED <<prompts, shown, error>>
  /\ UNCHANGED <<disk, isCaseInsensitive, customMap, customElf,
                 workspaceFolders, folders, walked, probes, picked, toolchain,
                 notices, result>>

Collect ==
  /\ CollectStep
  /\ console' = (IF pc' = "toolchain" THEN console \o SelectedLog(debug)
                 ELSE console)
  /\ UNCHANGED <<debug, outside>>

\* Lines 85-97: the user picks entry i of the list shown.
PickStep(i) ==
  /\ pc = "prompt"
  /\ i \in DOMAIN shown
  /\ picked' = i
  /\ paths' = PathsOf(SelectedAfterPick(items, shown[i]))
  /\ pc' = "toolchain"
  /\ UNCHANGED <<disk, isCaseInsensitive, customMap, customElf,
                 workspaceFolders, folders, items, listed, walked, probes,
                 prompts, shown, toolchain, notices, result, error>>

Pick(i) ==
  /\ PickStep(i)
  /\ console' = console \o SelectedLog(debug)
  /\ UNCHANGED <<debug, outside>>

\* Lines 88-90: the user dismisses the prompt.
CancelStep ==
  /\ pc = "prompt"
  /\ error' = ErrCancelled
  /\ pc' = "failed"
  /\ UNCHANGED <<disk, isCaseInsensitive, customMap, customElf,
                 workspaceFolders, folders, items, paths, listed, walked,
                 probes, prompts, shown, picked, toolchain, notices, result>>

Cancel ==
  /\ CancelStep
  /\ UNCHANGED <<debug, console, outside>>

\* Lines 33-37, 99-103 and 106-126: the toolchain path, then the result.
GetToolchainPathStep(tc) ==
  /\ pc = "toolchain"
  /\ toolchain' = tc
  /\ probes' = (IF Truthy(tc) THEN Append(probes, tc) ELSE probes)
  /\ LET out == ToolchainOutcome(tc) IN
       IF out.thrown
         THEN /\ error' = ErrAccess
              /\ pc' = "failed"
              /\ UNCHANGED <<notices, result>>
         ELSE /\ notices' = notices \o out.notices
              /\ result' = [map |-> paths.map, elf |-> paths.elf,
                            toolchainPath |-> out.path]
              /\ pc' = "done"
              /\ error' = error
  /\ UNCHANGED <<disk, isCaseInsensitive, customMap, customElf,
                 workspaceFolders, folders, items, paths, listed, walked,
                 prompts, shown, picked>>

GetToolchainPath(tc) ==
  /\ GetToolchainPathStep(tc)
  /\ console' = console \o ToolchainLog(tc, debug)
  /\ UNCHANGED <<debug, outside>>

Next ==
  \/ \E o \in OverrideValues : Begin(o[1], o[2])
  \/ CheckWorkspace
  \/ Scan
  \/ Collect
  \/ \E i \in DOMAIN shown : Pick(i)
  \/ Cancel
  \/ \E tc \in ToolchainPathValues : GetToolchainPath(tc)

Spec == Init /\ [][Next]_vars

\* The resolver with the debug setting on
SpecDebug == InitOn(Disks, TRUE) /\ [][Next]_vars

\* The resolver on the disks whose out links back to the workspace root.
\* resolve() runs on once called, and the prompt is answered or dismissed:
\* a step that can be taken is eventually taken.
FairSpec == InitOn(LoopDisks, FALSE) /\ [][Next]_vars /\ WF_vars(Next)

\* A disk whose build directory lists the entries es; an entry of es that
\* is a directory is an empty directory.
ArtifactDirDisk(es) ==
  LET b == Join(Root, N_build)
      subs == {Join(b, es[i].name) : i \in {j \in DOMAIN es : IsDirectory(es[j])}}
  IN [ci |-> FALSE,
      nodes |-> [s \in {Root, b} \cup subs |->
                   [ok |-> TRUE,
                    entries |-> IF s = Root THEN <<DirEntry(N_build)>>
                                ELSE IF s = b THEN es
                                ELSE <<>>]]]

\* Build directories in which app.elf or app.map is a directory
ArtifactDirDisks ==
  {ArtifactDirDisk(es) : es \in
     {<<FileEntry(F_fw_elf), FileEntry(F_fw_map),
        DirEntry(F_app_elf), FileEntry(F_app_map)>>,
      <<FileEntry(F_fw_elf), FileEntry(F_fw_map),
        FileEntry(F_app_elf), DirEntry(F_app_map)>>,
      <<DirEntry(F_app_elf), FileEntry(F_app_map)>>,
      <<FileEntry(F_app_elf), FileEntry(F_app_map)>>}}

\* The resolver on the disks of ArtifactDirDisks
SpecArtifactDirs == InitOn(ArtifactDirDisks, FALSE) /\ [][Next]_vars

\* The disks that hold at most the directory build under the workspace root
AgainDisks ==
  {d \in Disks : DOMAIN d.nodes \subseteq {Root, Join(Root, N_build)}}

\* resolve() is called again on the same resolver after a call has ended;
\* files and directories may have been added or removed in between. The
\* logs of what a call does start empty; folders, walked and items hold the
\* values of the call before until the new call assigns them.
CallAgain(d) ==
  /\ pc \in {"done", "failed"}
  /\ resolveCalls < MaxCalls
  /\ resolveCalls' = resolveCalls + 1
  /\ previous' = [error |-> error, result |-> result]
  /\ disk' = d
  /\ pc' = "idle"
  /\ customMap' = Unset
  /\ customElf' = Unset
  /\ paths' = NoPaths
  /\ listed' = <<>>
  /\ probes' = <<>>
  /\ prompts' = 0
  /\ shown' = <<>>
  /\ picked' = 0
  /\ toolchain' = Unset
  /\ notices' = <<>>
  /\ result' = NoResult
  /\ error' = ""
  /\ UNCHANGED <<isCaseInsensitive, workspaceFolders, folders, items, walked,
                 debug, console, webview>>

NextAgain ==
  \/ Next
  \/ \E d \in AgainDisks : CallAgain(d)

\* The resolver called up to MaxCalls more times on the disks of AgainDisks
SpecAgain == InitOn(AgainDisks, FALSE) /\ [][NextAgain]_vars

(***************************************************************************)
(* The webview script: handlers                                            *)
(***************************************************************************)
Symbol(name, startAddress, size) ==
  [name |-> name, startAddress |-> startAddress, size |-> size]

Section(name, symbols) == [name |-> <<name>>, symbols |-> symbols]

Region(name, sections) == [name |-> <<name>>, sections |-> sections]

\* The region lists a showMapData message carries: a region of two
\* sections with a name that holds b twice; a region without sections and a
\* section without symbols; a section of three symbols that has names
\* differing in case only and equal sizes, and whose orders by name, by
\* address and by size all differ
MapData ==
  { <<Region("FLASH",
        <<Section(".text", <<Symbol(<<"a", "b", ":", "b">>, 32, 4),
                             Symbol(<<"b">>, 16, 12)>>),
          Section(".data", <<Symbol(<<"a">>, 48, 4)>>)>>)>>,
    <<Region("CCMRAM", <<>>),
      Region("RAM",
        <<Section(".noinit", <<>>),
          Section(".bss", <<Symbol(<<"b">>, 4, 1)>>)>>)>>,
    <<Region("RAM",
        <<Section(".bss", <<Symbol(<<"b">>, 20, 10),
                            Symbol(<<"a">>, 300, 9),
                            Symbol(<<"B">>, 3, 10)>>)>>)>> }

\* What the search box can hold
InputValues == {<<>>, <<" ">>, <<"b">>, <<"(">>}

OptionButtons == {"caseSensitive", "wholeWord", "useRegex"}

\* What performSearch(query) does under the options opts
SearchKind(query, opts) ==
  IF query = <<>> THEN "reset"
  ELSE IF opts.useRegex /\ RegExpThrows(query) THEN "invalid"
  ELSE "matched"

NoSearch == "none"

\* The handler op has run and has called performSearch(query) on the rows
\* rs under the options opts
Searching(op, rs, query, opts) ==
  \E out \in {PerformSearch(rs, query, opts)} :
     /\ rows' = out.rows
     /\ searchMatchCount' = out.count
     /\ last' = [op |-> op, search |-> SearchKind(query, opts),
                 query |-> query]

\* The input listener of the search box: the box now holds v, and the
\* search is put off by 200 ms
Input(v) ==
  /\ v # searchValue
  /\ searchValue' = v
  /\ searchTimeout' = TRUE
  /\ last' = [op |-> "input", search |-> NoSearch, query |-> <<>>]
  /\ UNCHANGED <<rows, options, searchMatchCount, currentSortField,
                 isAscending, sortIndicators, streak, resolver>>

\* The callback of setTimeout runs
Timeout ==
  /\ searchTimeout
  /\ searchTimeout' = FALSE
  /\ Searching("timeout", rows, Trim(searchValue), options)
  /\ UNCHANGED <<searchValue, options, currentSortField, isAscending,
                 sortIndicators, streak, resolver>>

\* The keydown listener of the search box on Escape; a timer that is
\* running is not cleared
Escape ==
  /\ searchValue' = <<>>
  /\ Searching("escape", rows, <<>>, options)
  /\ UNCHANGED <<searchTimeout, options, currentSortField, isAscending,
                 sortIndicators, streak, resolver>>

\* The click listener of one of the three option buttons
OptionClick(btn) ==
  /\ options' = [options EXCEPT ![btn] = ~@]
  /\ Searching("option", rows, Trim(searchValue), options')
  /\ UNCHANGED <<searchValue, searchTimeout, currentSortField, isAscending,
                 sortIndicators, streak, resolver>>

\* The click listener of the header of field
HeaderClick(field) ==
  /\ \E to \in {SortClick(currentSortField, isAscending, field)} :
        /\ currentSortField' = to.field
        /\ isAscending' = to.asc
        /\ sortIndicators' = UpdateSortIndicators(to.field, to.asc)
        /\ rows' = ApplySorting(rows, to.by, to.asc)
  /\ streak' = IF streak.field = field /\ streak.n < 3
               THEN [streak EXCEPT !.n = @ + 1]
               ELSE [field |-> field, n |-> 1]
  /\ last' = [op |-> "header", search |-> NoSearch, query |-> <<>>]
  /\ UNCHANGED <<searchValue, searchTimeout, options, searchMatchCount,
                 resolver>>

\* The click listener of regionsTable on the toggle of row i, which the
\* user can see; it returns at once while the search box holds a text
ToggleClick(i) ==
  /\ searchValue = <<>>
  /\ rows[i].toggle # NoToggle
  /\ rows[i].display = Shown
  /\ rows' = ToggleRows(rows, i)
  /\ last' = [op |-> "toggle", search |-> NoSearch, query |-> <<>>]
  /\ UNCHANGED <<searchValue, searchTimeout, options, searchMatchCount,
                 currentSortField, isAscending, sortIndicators, streak,
                 resolver>>

\* The message listener on a showMapData message carrying data
ShowMapData(data) ==
  /\ IF searchValue # <<>>
     THEN Searching("showMapData", FillTableRegions(data), Trim(searchValue),
                    options)
     ELSE /\ rows' = FillTableRegions(data)
          /\ last' = [op |-> "showMapData", search |-> NoSearch,
                      query |-> <<>>]
          /\ UNCHANGED searchMatchCount
  /\ UNCHANGED <<searchValue, searchTimeout, options, currentSortField,
                 isAscending, sortIndicators, streak, resolver>>

WebviewNext ==
  \/ \E v \in InputValues : Input(v)
  \/ Timeout
  \/ Escape
  \/ \E btn \in OptionButtons : OptionClick(btn)
  \/ \E field \in SortFields : HeaderClick(field)
  \/ \E i \in DOMAIN rows : ToggleClick(i)
  \/ \E data \in MapData : ShowMapData(data)

\* The webview of an extension whose resolver is not running
WebviewInit ==
  /\ InitOn({ArtifactDirDisk(<<>>)}, FALSE)
  /\ ~isCaseInsensitive
  /\ workspaceFolders = <<Root>>

WebviewSpec == WebviewInit /\ [][WebviewNext]_vars

(***************************************************************************)
(* Notions the properties are stated in                                    *)
(***************************************************************************)
\* Both overrides are configured and both pass the read-access probe.
ValidOverridePair ==
  /\ customMap # Unset
  /\ customElf # Unset
  /\ AccessResult(customMap) = "ok"
  /\ AccessResult(customElf) = "ok"

\* resolve() has run the directory search (findBuildFolders has returned).
Searched == pc \in {"collect", "prompt", "toolchain", "done", "failed"}
            /\ ~ValidOverridePair /\ workspaceFolders # <<>>

Finished == pc \in {"done", "failed"}

EntriesAt(d, c) == Range(d.nodes[c].entries)
EntryNames(d, c) == {e.name : e \in EntriesAt(d, c)}

\* A file name without its four-character extension
Stem(n) == SubSeq(n, 1, Len(n) - 4)

\* The .elf entries of directory c that have a same-stem .map beside them
PairedElfs(d, c) ==
  {n \in EntryNames(d, c) :
     EndsWith(n, ExtElf) /\ (Stem(n) \o ExtMap) \in EntryNames(d, c)}

\* Every same-directory, same-stem pair of the tree: <<directory, elf name>>
TreePairs(d) ==
  UNION {{<<c, n>> : n \in PairedElfs(d, c)} : c \in DOMAIN d.nodes}

AllReadable(d) == \A c \in DOMAIN d.nodes : d.nodes[c].ok

\* No symbolic link, and name lookup as case-sensitive as the platform
\* check assumes.
PlainTree == /\ \A c \in DOMAIN disk.nodes :
                  \A e \in EntriesAt(disk, c) : e.kind # "link"
             /\ disk.ci = isCaseInsensitive

NoArtifacts(d) ==
  \A c \in DOMAIN d.nodes : \A n \in EntryNames(d, c) :
    ~EndsWith(n, ExtElf) /\ ~EndsWith(n, ExtMap)

\* The walk called readdirSync on x and the call failed.
ListingFailed(x) == x \in Range(listed) /\ ~CanReadDir(disk, x)

\* The directories listed beside x in its parent
SiblingDirs(x) ==
  IF Len(x) < 2 \/ ~CanReadDir(disk, Front(x)) THEN {}
  ELSE {Join(Front(x), e.name) :
          e \in {e \in Range(ReadDirSync(disk, Front(x))) : e.kind = "dir"}}
       \ {x}

Ancestors(x) == {SubSeq(x, 1, k) : k \in 1..(Len(x) - 1)}

\* The pair of elf n in directory s is a candidate.
Offered(s, n) ==
  \E i \in DOMAIN items :
    /\ items[i].elf = Join(s, n)
    /\ items[i].map = Join(s, Stem(n) \o ExtMap)

\* Every pair of readable directory s is a candidate and nothing is raised
\* before the user is asked.
PairsOffered(s) ==
  \A n \in PairedElfs(disk, Lookup(disk, s).at) :
    Offered(s, n) /\ error \in {"", ErrCancelled}

(***************************************************************************)
(* Properties                                                              *)
(***************************************************************************)
\* C1: with both overrides configured and readable, resolve() settles on
\* exactly those two strings, lists no directory and shows no prompt,
\* whatever the workspace is and holds; it never fails.
FastPathPrecedence ==
  (pc # "idle" /\ ValidOverridePair) =>
    /\ pc \in {"toolchain", "done"}
    /\ paths.map = customMap /\ paths.elf = customElf
    /\ listed = <<>>
    /\ prompts = 0
    /\ (pc = "done" => result.map = customMap /\ result.elf = customElf)

\* Witness of C1: the fast path returned although the open workspace holds
\* a pair of its own.
FastPathWitness ==
  /\ pc = "done" /\ ValidOverridePair
  /\ workspaceFolders = <<Root>>
  /\ TreePairs(disk) # {}

\* C2, as stated: in a workspace of readable directories that holds exactly
\* one same-directory, same-stem pair anywhere (no symbolic links, the file
\* system as case-sensitive as the platform check assumes), the search
\* returns that pair without a prompt.
SingleCandidateAutoSelect ==
  (/\ Finished /\ ~ValidOverridePair /\ workspaceFolders = <<Root>>
   /\ AllReadable(disk) /\ PlainTree
   /\ Cardinality(TreePairs(disk)) = 1) =>
    LET pr == CHOOSE x \in TreePairs(disk) : TRUE IN
      /\ pc = "done"
      /\ prompts = 0
      /\ result.elf = Join(pr[1], pr[2])
      /\ result.map = Join(pr[1], Stem(pr[2]) \o ExtMap)

\* C3: with two or more candidates the prompt is shown exactly once with the
\* whole list; the pair settled on is the picked candidate's; a dismissed
\* prompt ends in 'Selection cancelled' with no result.
MultiCandidatePrompt ==
  (Len(items) >= 2) =>
    /\ prompts = 1
    /\ shown = items
    /\ pc \in {"prompt", "toolchain", "done", "failed"}
    /\ (pc \in {"toolchain", "done"} =>
          /\ picked \in DOMAIN items
          /\ paths = PathsOf(items[picked]))
    /\ (pc = "done" => /\ result.map = items[picked].map
                       /\ result.elf = items[picked].elf)
    /\ (pc = "failed" => error = ErrCancelled /\ result = NoResult)

\* Witness of C3: the user picked the second of several candidates and
\* resolve() returned.
MultiCandidateWitness ==
  pc = "done" /\ Len(items) >= 2 /\ picked = 2

\* C4 as stated, for the runs that return a result on a workspace without
\* symbolic links whose file system is as case-sensitive as the platform
\* check assumes: whenever a listing failed during the walk, every readable
\* sibling directory's pair is returned or offered.
PartialFailureAnySibling ==
  (pc = "done" /\ Searched /\ PlainTree) =>
    \A x \in Range(listed) : ListingFailed(x) =>
      \A s \in SiblingDirs(x) : CanReadDir(disk, s) => PairsOffered(s)

\* C4 as amended: a failed listing is never raised, and every readable
\* sibling or ancestor directory that the walk lists has its pairs returned
\* or offered.
PartialFailureListedSibling ==
  /\ error # ErrFs
  /\ (Finished /\ Searched) =>
       \A x \in Range(listed) : ListingFailed(x) =>
         \A s \in (SiblingDirs(x) \cup Ancestors(x)) \cap Range(listed) :
           CanReadDir(disk, s) => PairsOffered(s)

\* Witness of C4: resolve() returned after a listing failed beside a listed,
\* readable directory that holds a pair.
PartialFailureWitness ==
  /\ pc = "done" /\ Searched
  /\ \E x \in Range(listed) :
       /\ ListingFailed(x)
       /\ \E s \in SiblingDirs(x) \cap Range(listed) :
            CanReadDir(disk, s) /\ PairedElfs(disk, Lookup(disk, s).at) # {}

\* C5, as stated: no directory is in the found-folder set twice, under
\* whatever two paths it was reached.
DedupUnderAliasing ==
  \A i, j \in DOMAIN folders :
    i # j => Lookup(disk, folders[i]).at # Lookup(disk, folders[j]).at

\* C6: every found folder directly holds a non-directory entry ending in
\* .elf and a non-directory entry ending in .map.
CoLocation ==
  \A i \in DOMAIN folders :
    LET n == Lookup(disk, folders[i]) IN
      /\ n.kind = "dir"
      /\ \E e \in EntriesAt(disk, n.at) :
           e.kind # "dir" /\ EndsWith(e.name, ExtElf)
      /\ \E e \in EntriesAt(disk, n.at) :
           e.kind # "dir" /\ EndsWith(e.name, ExtMap)

\* Witness of C6: the search listed a directory that holds an .elf but no
\* .map, with a .map in a subdirectory, and did not report it.
CoLocationWitness ==
  /\ Searched /\ Len(folders) > 0
  /\ \E p \in Range(listed) :
       /\ CanReadDir(disk, p)
       /\ p \notin Range(folders)
       /\ \E n \in EntryNames(disk, Lookup(disk, p).at) : EndsWith(n, ExtElf)
       /\ \E e \in EntriesAt(disk, Lookup(disk, p).at) :
            /\ e.kind = "dir"
            /\ \E n \in EntryNames(disk, Lookup(disk, Join(p, e.name)).at) :
                 EndsWith(n, ExtMap)

\* C7: the candidates of a found folder are exactly one per .elf entry with
\* an entry stem + '.map' of identical case beside it; unpaired files give
\* no candidate and no error; a candidate's elf and map share folder and
\* stem.
StemExactPairing ==
  (pc # "collect") =>
    /\ error # ErrFs
    /\ \A f \in Range(folders) :
         LET mine == {i \in DOMAIN items : Front(items[i].elf) = f}
             want == PairedElfs(disk, Lookup(disk, f).at)
         IN /\ {items[i].elf : i \in mine} = {Join(f, n) : n \in want}
            /\ Cardinality(mine) = Cardinality(want)
    /\ \A i \in DOMAIN items :
         /\ Front(items[i].elf) \in Range(folders)
         /\ Front(items[i].map) = Front(items[i].elf)
         /\ EndsWith(Last(items[i].elf), ExtElf)
         /\ Last(items[i].map) = Stem(Last(items[i].elf)) \o ExtMap

\* Witness of C7: a folder with app.elf, app.map and other.map gave the one
\* candidate app, and resolve() returned it.
StemExactWitness ==
  /\ pc = "done" /\ Len(items) = 1
  /\ \E f \in Range(folders) :
       F_other_map \in EntryNames(disk, Lookup(disk, f).at)

\* C8: with no valid override pair and a workspace holding no .elf and no
\* .map anywhere, the search ends in 'No build folders ...', with no prompt
\* and no result.
EmptyTree ==
  (/\ pc \notin {"idle", "workspace"} /\ ~ValidOverridePair
   /\ workspaceFolders = <<Root>> /\ NoArtifacts(disk)) =>
    /\ pc \in {"scan", "failed"}
    /\ (pc = "failed" => error = ErrNoBuildFolder)
    /\ prompts = 0
    /\ result = NoResult

\* Witness of C8: the search failed on a workspace of several readable
\* directories without artifacts.
EmptyTreeWitness ==
  /\ pc = "failed" /\ error = ErrNoBuildFolder
  /\ NoArtifacts(disk) /\ AllReadable(disk)
  /\ Cardinality(DOMAIN disk.nodes) >= 3

\* C9: after the search, 'No build folders ...' is raised exactly when the
\* found-folder set is empty, 'No matching ...' exactly when it is not
\* empty and none of its folders holds a same-stem pair; neither shows a
\* prompt.
SearchFailureClassification ==
  /\ Searched => (error = ErrNoBuildFolder <=> Len(folders) = 0)
  /\ (Searched /\ pc # "collect") =>
       (error = ErrNoMatch <=>
          /\ Len(folders) > 0
          /\ \A f \in Range(folders) :
               PairedElfs(disk, Lookup(disk, f).at) = {})
  /\ error \in {ErrNoBuildFolder, ErrNoMatch} => (Searched /\ prompts = 0)

\* Witness of C9: folders were found and none held a same-stem pair.
NoMatchWitness ==
  pc = "failed" /\ error = ErrNoMatch /\ Len(folders) > 0

\* C10: 'No workspace folder open' is raised exactly when the override pair
\* is not both present and valid and no workspace folder is open; then
\* nothing was listed, prompted or notified.
NoWorkspaceError ==
  (pc \notin {"idle", "workspace"}) =>
    /\ (error = ErrNoWorkspace <=>
          (~ValidOverridePair /\ workspaceFolders = <<>>))
    /\ (error = ErrNoWorkspace =>
          /\ pc = "failed"
          /\ listed = <<>> /\ prompts = 0 /\ notices = <<>>
          /\ result = NoResult)

\* Witness of C10: both overrides were configured, one failed the probe, and
\* no workspace folder was open.
NoWorkspaceWitness ==
  /\ pc = "failed" /\ error = ErrNoWorkspace
  /\ customMap # Unset /\ customElf # Unset

\* C11: in every run that returns a result, a configured toolchain path that
\* passes the read-access probe is in the result with exactly one
\* information notice; a configured one that fails the probe leaves
\* toolchainPath unset with exactly one warning; with none configured
\* toolchainPath is unset and nothing is notified.
ToolchainThreeWay ==
  (pc = "done") =>
    /\ (toolchain # Unset /\ AccessResult(toolchain) = "ok") =>
         (result.toolchainPath = toolchain /\ notices = <<"info">>)
    /\ (toolchain # Unset /\ AccessResult(toolchain) # "ok") =>
         (result.toolchainPath = NoPath /\ notices = <<"warning">>)
    /\ (toolchain = Unset) =>
         (result.toolchainPath = NoPath /\ notices = <<>>)

\* Witness of C11: resolve() returned a searched pair with a configured
\* toolchain path that does not exist.
ToolchainThreeWayWitness ==
  /\ pc = "done" /\ Searched
  /\ toolchain = <<N_opt, N_gone>>
  /\ notices = <<"warning">>

\* C12: the step that reads the toolchain setting always ends the run with a
\* result; it carries the pair already settled on and leaves the error, the
\* prompt count and the list shown as they were, whatever the setting is.
\* Until that step the setting has not been read and nothing is notified.
ToolchainIndependence ==
  /\ [][pc = "toolchain" =>
          /\ pc' = "done"
          /\ result'.map = paths.map /\ result'.elf = paths.elf
          /\ error' = error /\ prompts' = prompts /\ shown' = shown]_vars
  /\ [](pc # "done" => toolchain = Unset /\ notices = <<>>)

\* Witness of C12: a run that went through the prompt returned with a
\* configured toolchain path that fails the probe.
ToolchainIndependenceWitness ==
  /\ pc = "done" /\ prompts = 1 /\ picked > 0
  /\ toolchain # Unset /\ AccessResult(toolchain) # "ok"
  /\ result.map = paths.map /\ result.elf = paths.elf

\* Directory c directly holds a non-directory entry of each extension.
HoldsBoth(d, c) ==
  /\ \E e \in EntriesAt(d, c) : e.kind # "dir" /\ EndsWith(e.name, ExtElf)
  /\ \E e \in EntriesAt(d, c) : e.kind # "dir" /\ EndsWith(e.name, ExtMap)

\* The first position of x in s, Len(s) + 1 when x is not in s
IndexOf(s, x) ==
  IF x \in Range(s)
    THEN CHOOSE i \in DOMAIN s : s[i] = x /\ \A j \in 1..(i - 1) : s[j] # x
    ELSE Len(s) + 1

IsPrefix(a, b) == Len(a) <= Len(b) /\ SubSeq(b, 1, Len(a)) = a

\* The directories findBuildFolders itself called walk on
WalkRoots ==
  {c \in Range(Common(Root)) : ExistsSync(disk, c)}
    \cup (IF Root \in Range(walked) THEN {Root} ELSE {})

\* C13, as stated: after a search of a workspace whose directories are all
\* readable and that has no symbolic link, every directory in the subtree of
\* a directory findBuildFolders walked that directly holds an .elf and a
\* .map is in the found-folder set, also when another directory's path
\* differs from its path only in letter case.
WalkerCompleteness ==
  (/\ Searched /\ AllReadable(disk)
   /\ \A c \in DOMAIN disk.nodes : \A e \in EntriesAt(disk, c) : e.kind # "link")
  =>
    \A r \in WalkRoots : \A c \in DOMAIN disk.nodes :
      (IsPrefix(Lookup(disk, r).at, c) /\ HoldsBoth(disk, c)) =>
        \E i \in DOMAIN folders : Lookup(disk, folders[i]).at = c

\* The calls of walk up to the fallback call walk(root), and the
\* directories listed up to it
PrioritizedCalls ==
  SelectSeq(SubSeq(walked, 1, IndexOf(walked, Root) - 1),
            LAMBDA p : Len(p) = 2)

PrioritizedListed == SubSeq(listed, 1, IndexOf(listed, Root) - 1)

FellBack == Root \in Range(walked)

\* C14: findBuildFolders calls walk on the existing ones of the six common
\* directories, in the order of the list, and on no other; it then calls
\* walk(root), once, exactly when no directory listed so far is readable and
\* holds both extensions; without that call every listed directory lies at
\* or under one of the six.
SearchRootPrioritization ==
  Searched =>
    /\ PrioritizedCalls
         = SelectSeq(Common(Root), LAMBDA c : ExistsSync(disk, c))
    /\ FellBack <=>
         \A i \in DOMAIN PrioritizedListed :
           ~(/\ CanReadDir(disk, PrioritizedListed[i])
             /\ HoldsBoth(disk, Lookup(disk, PrioritizedListed[i]).at))
    /\ \A i \in DOMAIN walked : walked[i] = Root => i = IndexOf(walked, Root)
    /\ ~FellBack =>
         /\ Len(folders) > 0
         /\ \A i \in DOMAIN listed :
              \E c \in Range(Common(Root)) : IsPrefix(c, listed[i])

\* Witness of C14: two common directories were walked, the first found
\* nothing and the second did, and proj, which holds a pair, was not listed.
SearchRootPrioritizationWitness ==
  /\ Searched /\ ~FellBack
  /\ Len(PrioritizedCalls) >= 2
  /\ ~HoldsBoth(disk, Lookup(disk, PrioritizedCalls[1]).at)
  /\ Join(Root, N_proj) \in DOMAIN disk.nodes
  /\ HoldsBoth(disk, Join(Root, N_proj))
  /\ Join(Root, N_proj) \notin Range(listed)

\* A step of resolve() as it is taken with debug off
NextQuiet ==
  \/ \E o \in OverrideValues : BeginStep(o[1], o[2])
  \/ CheckWorkspaceStep
  \/ ScanStep(FindBuildFoldersAt(disk, isCaseInsensitive,
                                 workspaceFolders[1], FALSE))
  \/ CollectStep
  \/ \E i \in DOMAIN shown : PickStep(i)
  \/ CancelStep
  \/ \E tc \in ToolchainPathValues : GetToolchainPathStep(tc)

\* C15: every step of a run with debug on changes the settings read, the
\* file-system probes and listings, the prompt, the notifications, the
\* error and the result exactly as the same step does with debug off; only
\* the console differs.
DebugNonInterference == [][NextQuiet]_observables

\* Witness of C15: a run with debug on returned a searched pair and logged
\* the folder it found.
DebugNonInterferenceWitness ==
  /\ debug /\ pc = "done" /\ Searched
  /\ \E i \in DOMAIN console : console[i] = "Found build folder"
  /\ \E i \in DOMAIN console : console[i] = "Failed to access folder"

\* C16: no run ends with an exception of the access probe. With both
\* overrides configured the fast path is taken exactly when both probes
\* succeed, and a configured toolchain path is returned exactly when its
\* probe succeeds, for a missing path as for one without read permission.
\* A failed probe of the overrides leaves the paths, the error, the
\* notices, the prompt and the result as they were.
PathValidatorTotality ==
  /\ error # ErrAccess
  /\ (pc # "idle" /\ customMap # Unset /\ customElf # Unset) =>
       ((pc \in {"toolchain", "done"} /\ listed = <<>>
           /\ paths = CustomPaths(customMap, customElf))
        <=> (AccessResult(customMap) = "ok" /\ AccessResult(customElf) = "ok"))
  /\ (pc = "done" /\ toolchain # Unset) =>
       (result.toolchainPath = toolchain <=> AccessResult(toolchain) = "ok")
  /\ (pc = "workspace") =>
       /\ paths = NoPaths /\ error = "" /\ notices = <<>>
       /\ prompts = 0 /\ result = NoResult

\* Witness of C16: a run returned after the probe of the elf override failed
\* for lack of permission and the probe of the toolchain path failed because
\* the path is missing.
PathValidatorWitness ==
  /\ pc = "done"
  /\ AccessResult(customElf) = "EACCES"
  /\ toolchain # Unset /\ AccessResult(toolchain) = "ENOENT"
  /\ probes = <<customMap, customElf, toolchain>>

\* The search has returned and nothing has been listed since.
WalkJustEnded ==
  Searched /\ (pc = "collect" \/ (pc = "failed" /\ error = ErrNoBuildFolder))

\* C17, as stated: within one findBuildFolders call no directory is listed
\* more than once, under whatever paths it is reached.
VisitOnce ==
  WalkJustEnded =>
    \A i, j \in DOMAIN listed :
      i # j => Lookup(disk, listed[i]).at # Lookup(disk, listed[j]).at

\* resolve() has returned a result, or has raised one of its four errors.
Ended ==
  \/ pc = "done" /\ error = "" /\ result # NoResult
  \/ /\ pc = "failed" /\ result = NoResult
     /\ error \in {ErrNoWorkspace, ErrNoBuildFolder, ErrNoMatch, ErrCancelled}

\* C18: on every disk, also where out links back to the workspace root so
\* that every directory is reachable from itself, a run of resolve() in
\* which the prompt is answered or dismissed ends with a result or with one
\* of the errors no-workspace, no-build-folder, no-match and cancelled.
Termination == <>Ended

\* Witness of C18: resolve() returned after the search went through the
\* link that leads back to the workspace root.
TerminationWitness ==
  /\ pc = "done"
  /\ Lookup(disk, Join(Root, N_out)).at = Root
  /\ Join(Root, N_out) \in Range(walked)

\* C19: when an override is missing or fails the access probe, a run that
\* settles on a pair has listed directories and takes both paths from one
\* candidate of the search; neither returned path is a configured override.
PartialOverrideIgnored ==
  (pc # "idle" /\ ~ValidOverridePair) =>
    /\ (pc \in {"toolchain", "done"}) =>
         /\ listed # <<>>
         /\ \E i \in DOMAIN items : paths = PathsOf(items[i])
    /\ (pc = "done") =>
         /\ \E i \in DOMAIN items :
              result.map = items[i].map /\ result.elf = items[i].elf
         /\ result.map # customMap /\ result.elf # customElf

\* Witness of C19: a run returned a searched pair although a readable map
\* override was configured alone.
PartialOverrideWitness ==
  /\ pc = "done"
  /\ customMap # Unset /\ AccessResult(customMap) = "ok"
  /\ customElf = Unset
  /\ result.map # customMap

\* The position of a candidate's folder among the found folders, and of its
\* .elf in the listing of that folder
FolderIndex(it) == IndexOf(folders, Front(it.elf))
ElfIndex(it) == IndexOf(ReadDirNames(disk, Front(it.elf)), Last(it.elf))

\* C20: the candidates are ordered by the position of their folder in the
\* found-folder list and, within a folder, by the position of their .elf in
\* the folder's listing; the prompt shows them in that order; the candidate
\* settled on before and without a prompt is the first of the list.
CandidateOrder ==
  /\ \A i \in DOMAIN items : FolderIndex(items[i]) \in DOMAIN folders
  /\ \A i, j \in DOMAIN items : i < j =>
       \/ FolderIndex(items[i]) < FolderIndex(items[j])
       \/ /\ FolderIndex(items[i]) = FolderIndex(items[j])
          /\ ElfIndex(items[i]) < ElfIndex(items[j])
  /\ (prompts > 0) => shown = items
  /\ (pc = "prompt") => paths = PathsOf(items[1])
  /\ (pc \in {"toolchain", "done"} /\ Searched /\ prompts = 0) =>
       paths = PathsOf(items[1])

\* Witness of C20: the prompt shows three candidates of two folders, two of
\* them of one folder.
CandidateOrderWitness ==
  /\ pc = "prompt" /\ Len(folders) >= 2
  /\ \E i, j \in DOMAIN shown :
       i < j /\ FolderIndex(shown[i]) = FolderIndex(shown[j])
  /\ \E i, j \in DOMAIN shown :
       i < j /\ FolderIndex(shown[i]) < FolderIndex(shown[j])

\* What a call of resolve() that searches lists, finds and pairs when it
\* starts from nothing
FreshWalk ==
  FindBuildFolders(disk, isCaseInsensitive, workspaceFolders[1], debug)

\* C21: in every call of resolve(), the first or a later one after calls
\* that returned, failed or were cancelled and after files were added or
\* removed, the walk calls, the listings, the found folders and the
\* candidates are those of a search of the present disk that starts with
\* empty sets; the access probes are those of this call alone and the
\* prompt is shown at most once.
CallScopedState ==
  /\ Searched =>
       /\ walked = FreshWalk.calls
       /\ folders = FreshWalk.found
       /\ WalkJustEnded => listed = FreshWalk.listed
       /\ (pc \in {"prompt", "toolchain", "done"}
             \/ (pc = "failed" /\ error \in {ErrNoMatch, ErrCancelled})) =>
            /\ items = CollectItems(disk, workspaceFolders[1],
                                    FreshWalk.found, 1, <<>>)
            /\ listed = FreshWalk.listed \o FreshWalk.found
  /\ (pc # "idle") =>
       probes = CustomPathProbes(customMap, customElf)
                  \o (IF toolchain # Unset THEN <<toolchain>> ELSE <<>>)
  /\ prompts = (IF shown = <<>> THEN 0 ELSE 1)

\* Witness of C21: a call found no build folder, a pair was added to the
\* disk, and the next call on the same resolver returned it.
CallScopedStateWitness ==
  /\ resolveCalls >= 1
  /\ previous.error = ErrNoBuildFolder
  /\ pc = "done" /\ Searched
  /\ result.elf \in {items[i].elf : i \in DOMAIN items}

\* Path a is a proper ancestor of path b.
IsAbove(a, b) == Len(a) < Len(b) /\ IsPrefix(a, b)

\* C22: a found folder below another found folder comes before it in the
\* found-folder list, and its candidates come before the candidates of the
\* folder above in the candidate list and in the list the prompt shows.
PostOrderRecording ==
  /\ \A i, j \in DOMAIN folders :
       IsAbove(folders[i], folders[j]) => j < i
  /\ \A i, j \in DOMAIN items :
       IsAbove(Front(items[i].elf), Front(items[j].elf)) => j < i
  /\ \A i, j \in DOMAIN shown :
       IsAbove(Front(shown[i].elf), Front(shown[j].elf)) => j < i

\* Witness of C22: the prompt shows the candidate of a folder before the
\* candidates of the found folder above it.
PostOrderRecordingWitness ==
  /\ pc = "prompt"
  /\ \E i, j \in DOMAIN folders : i < j /\ IsAbove(folders[j], folders[i])
  /\ \E i, j \in DOMAIN shown :
       i < j /\ IsAbove(Front(shown[j].elf), Front(shown[i].elf))

\* C23, as stated: the elf path and the map path of every candidate name
\* regular files; a directory whose name ends in .elf or .map is the binary
\* or the map of no candidate.
CandidatesAreFiles ==
  \A i \in DOMAIN items :
    /\ Lookup(disk, items[i].elf).kind = "file"
    /\ Lookup(disk, items[i].map).kind = "file"

\* C24: the toolchain setting is read, its path probed and its notice
\* shown in one step that starts with the pair settled (the fast path was
\* taken or a candidate chosen) and leaves the pair as it is; the probe is
\* the last probe of the call and there is at most one notice; a call that
\* fails has read no toolchain setting, probed no toolchain path and shown
\* no notice.
ToolchainLastAndOnce ==
  /\ [][(toolchain' # toolchain \/ notices' # notices
           \/ (Len(probes') > Len(probes)
                 /\ probes'[Len(probes')] \in ToolchainPathValues)) =>
          /\ pc = "toolchain" /\ pc' = "done"
          /\ paths # NoPaths /\ paths' = paths
          /\ toolchain = Unset /\ notices = <<>>]_vars
  /\ [](/\ Len(notices) <= 1
        /\ \A i \in DOMAIN probes :
             probes[i] \in ToolchainPathValues =>
               i = Len(probes) /\ pc = "done" /\ probes[i] = toolchain
        /\ (pc = "failed") =>
             toolchain = Unset /\ notices = <<>> /\ result = NoResult)

\* Witness of C24: after the user picked a candidate the toolchain path was
\* probed, as the only probe of the call, and its notice shown.
ToolchainLastAndOnceWitness ==
  /\ pc = "done" /\ picked > 0
  /\ toolchain # Unset /\ probes = <<toolchain>>
  /\ notices = <<"info">>


(***************************************************************************)
(* The webview: sorting                                                    *)
(***************************************************************************)
\* The index of the section row a symbol row stands under: the nearest
\* row of level 2 before it, 0 for none
SectionAbove(rs, i) ==
  IF \E j \in 1..(i - 1) : rs[j].level = 2
  THEN CHOOSE j \in 1..(i - 1) :
         rs[j].level = 2 /\ \A k \in (j + 1)..(i - 1) : rs[k].level # 2
  ELSE 0

\* The index of the region row a row stands under
RegionAbove(rs, i) ==
  IF \E j \in 1..(i - 1) : rs[j].level = 1
  THEN CHOOSE j \in 1..(i - 1) :
         rs[j].level = 1 /\ \A k \in (j + 1)..(i - 1) : rs[k].level # 1
  ELSE 0

\* The symbols of every section stand in the order of the message: the
\* k-th row under a section row is the one created for its k-th symbol
OriginalOrder(rs) ==
  \A i \in DOMAIN rs :
     rs[i].level = 3 => rs[i].orig = i - SectionAbove(rs, i)

\* What a click on the header of f is to do to the sort state
SortClickMoves(f) ==
  /\ (currentSortField = f /\ isAscending)
       => (currentSortField' = f /\ ~isAscending')
  /\ (currentSortField = f /\ ~isAscending)
       => (currentSortField' = NoField /\ isAscending' /\ OriginalOrder(rows'))
  /\ (currentSortField # f)
       => (currentSortField' = f /\ isAscending')

\* The step changes the sort state
SortStateMoves ==
  currentSortField' # currentSortField \/ isAscending' # isAscending

WellNumbered(rs) ==
  \A i \in DOMAIN rs :
     /\ rs[i].id = i
     /\ rs[i].level = 2
          => /\ RegionAbove(rs, i) # 0
             /\ rs[i].parent = rs[RegionAbove(rs, i)].id
     /\ rs[i].level = 3
          => /\ SectionAbove(rs, i) > RegionAbove(rs, i)
             /\ SectionAbove(rs, i) # 0
             /\ rs[i].parent = rs[SectionAbove(rs, i)].id

\* to holds the rows of from: every region and section row where it was,
\* every symbol row once, under the section row it was under
SortedWithinSections(from, to) ==
  /\ Len(to) = Len(from)
  /\ \A i \in DOMAIN from :
        IF from[i].level = 3
        THEN /\ to[i].level = 3
             /\ \E j \in DOMAIN to :
                   /\ to[j].el = from[i].el
                   /\ SectionAbove(to, j) = SectionAbove(from, i)
                   /\ \A k \in DOMAIN to : to[k].el = from[i].el => k = j
        ELSE to[i].el = from[i].el /\ to[i].level = from[i].level

\* C26: in every state (after fillTableRegions and after any number of
\* applySorting calls) row ids are 1..n in document order, a section row's
\* parent is the id of the nearest region row before it and a symbol row's
\* parent the id of the nearest section row before it; and a header click
\* (applySorting) moves symbol rows within their own section only, keeps
\* every region and section row in place and adds or drops no row.
RowHierarchy ==
  /\ [][\A f \in SortFields :
          HeaderClick(f) => SortedWithinSections(rows, rows')]_vars
  /\ [](WellNumbered(rows))

\* A header click has just moved a symbol in front of one created before it
RowHierarchyWitness ==
  /\ last.op = "header"
  /\ \E i \in DOMAIN rows :
        /\ i + 1 \in DOMAIN rows
        /\ rows[i].level = 3 /\ rows[i + 1].level = 3
        /\ rows[i].orig > rows[i + 1].orig


(***************************************************************************)
(* The webview: searching                                                  *)
(***************************************************************************)
\* The name matches the query under the options: as a regular expression
\* in regex mode; otherwise the query occurs in the name, as a whole word
\* (no word character next to it on either side) when that option is on;
\* letter case counts only when that option is on
Matches(query, opts, name) ==
  IF opts.useRegex
  THEN RegExpTest(query, opts.caseSensitive, opts.wholeWord, name)
  ELSE \E k \in Occurrences(IF opts.caseSensitive THEN name ELSE LowerName(name),
                            IF opts.caseSensitive THEN query ELSE LowerName(query)) :
          opts.wholeWord => ~WordAt(name, k - 1) /\ ~WordAt(name, k + Len(query))

\* The symbol rows under the section or region row i whose names match
MatchingUnder(rs, i, query, opts) ==
  {j \in DOMAIN rs :
     /\ rs[j].level = 3
     /\ Matches(query, opts, SymbolName(rs[j]))
     /\ i \in {SectionAbove(rs, j), RegionAbove(rs, j)}}

MatchingRows(rs, query, opts) ==
  {j \in DOMAIN rs : rs[j].level = 3 /\ Matches(query, opts, SymbolName(rs[j]))}

\* C27: right after performSearch with a query that is not empty and is
\* valid, a symbol row is displayed iff its name matches, a section or
\* region row iff a symbol under it matches, and the count reported is the
\* number of matching symbol rows; right after performSearch with the empty
\* query every region row is displayed, every other row is hidden and every
\* toggle shows '+'.
SearchVisibility ==
  /\ last.search = "matched" =>
       /\ \A i \in DOMAIN rows :
             (rows[i].display = Shown) <=>
               IF rows[i].level = 3
               THEN Matches(last.query, options, SymbolName(rows[i]))
               ELSE MatchingUnder(rows, i, last.query, options) # {}
       /\ searchMatchCount =
            IF MatchingRows(rows, last.query, options) = {} THEN NoMatches
            ELSE Found(Cardinality(MatchingRows(rows, last.query, options)))
  /\ last.search = "reset" =>
       \A i \in DOMAIN rows :
          /\ (rows[i].display = Shown) <=> (rows[i].level = 1)
          /\ rows[i].toggle \in {Plus, NoToggle}


\* The step calls performSearch in regex mode with a query that does not
\* compile
InvalidRegexSearch ==
  /\ Timeout \/ \E btn \in OptionButtons : OptionClick(btn)
  /\ SearchKind(Trim(searchValue), options') = "invalid"

\* C28: a call of performSearch in regex mode with a query that is not a
\* valid regular expression reports 'Invalid regex' and leaves every row as
\* it was: display, toggle symbol and search highlight.
InvalidRegexKeepsTable ==
  [][InvalidRegexSearch =>
       /\ searchMatchCount' = InvalidRegex
       /\ Len(rows') = Len(rows)
       /\ \A i \in DOMAIN rows :
             /\ rows'[i].display = rows[i].display
             /\ rows'[i].toggle = rows[i].toggle
             /\ rows'[i].highlight = rows[i].highlight]_vars


(***************************************************************************)
(* The webview: expanding and collapsing                                   *)
(***************************************************************************)
\* The rows directly under the region or section row i
ChildRows(rs, i) ==
  {j \in DOMAIN rs :
     \/ rs[i].level = 1 /\ rs[j].level = 2 /\ RegionAbove(rs, j) = i
     \/ rs[i].level = 2 /\ rs[j].level = 3 /\ SectionAbove(rs, j) = i}

\* C29: whenever the search box is empty, the toggle of a region or section
\* row that has rows under it shows '-' iff those rows are displayed (all
\* of them under '-', none of them under '+'), no symbol row is displayed
\* under a hidden section row and no section row under a hidden region row.
ExpandCollapseConsistency ==
  searchValue = <<>> =>
    \A i \in DOMAIN rows :
       /\ ChildRows(rows, i) # {} =>
            \A c \in ChildRows(rows, i) :
               (rows[c].display = Shown) <=> (rows[i].toggle = Minus)
       /\ (rows[i].level = 3 /\ rows[i].display = Shown)
            => rows[SectionAbove(rows, i)].display = Shown
       /\ (rows[i].level = 2 /\ rows[i].display = Shown)
            => rows[RegionAbove(rows, i)].display = Shown


(***************************************************************************)
(* The webview: sort indicators                                            *)
(***************************************************************************)
\* Symbol row a does not come after symbol row b in ascending order by f:
\* by name without regard to letter case, by address, by size in bytes
NotAfter(a, b, f) ==
  IF f = "name"
  THEN LocaleCompare(LowerName(SymbolName(a)), LowerName(SymbolName(b))) <= 0
  ELSE IF f = "address" THEN ParseHex(a.addrCell) <= ParseHex(b.addrCell)
  ELSE ParseSizeToBytes(a.sizeCell) <= ParseSizeToBytes(b.sizeCell)

\* The symbols of every section stand in ascending (descending) order by f
OrderedBy(rs, f, asc) ==
  \A i \in DOMAIN rs :
     (i + 1 \in DOMAIN rs /\ rs[i].level = 3 /\ rs[i + 1].level = 3)
       => IF asc THEN NotAfter(rs[i], rs[i + 1], f)
          ELSE NotAfter(rs[i + 1], rs[i], f)

\* C30: in every state, if the indicator of field f is active and shows the
\* up (down) arrow, the symbols of every section are in ascending
\* (descending) order by f; if no indicator is active they are in their
\* original order.
IndicatorMatchesOrder ==
  /\ \A f \in SortFields :
        sortIndicators[f].active =>
          /\ sortIndicators[f].text = "up" => OrderedBy(rows, f, TRUE)
          /\ sortIndicators[f].text = "down" => OrderedBy(rows, f, FALSE)
  /\ (\A f \in SortFields : ~sortIndicators[f].active) => OriginalOrder(rows)

====
